---------------------------- MODULE Spec2Model ----------------------------
(***************************************************************************)
(* Model of the sound-sleuth capture / recognition pipeline:               *)
(*   - encodeWAV and calculateRMS of src/src/hooks/useAudioRecorder.ts     *)
(*   - the useAudioRecorder hook (startRecording, the capture callback,    *)
(*     the animation-frame feed, stopRecording)                            *)
(*   - the identify-song edge function (src/unnamed/part_000)              *)
(* Three specifications share the variables: SpecEnc (the encoder as a     *)
(* pure function of drawn inputs), Spec (the hook) and SpecId (the edge    *)
(* function handler).                                                      *)
(***************************************************************************)
EXTENDS Integers, Sequences, FiniteSets, TLC

VARIABLES
  \* ---- encoder harness (SpecEnc)
  encSamples,     \* the Float32Array handed to encodeWAV
  encRate,        \* the sampleRate handed to encodeWAV
  encOut,         \* the last call: bytes returned, hook state it ran in
  encPrev,        \* the call before the last one, likewise
  encCalls,       \* number of encodeWAV invocations so far
  \* ---- useAudioRecorder hook (Spec)
  isRecording,    \* useState isRecording
  audioLevel,     \* useState audioLevel (0 .. MaxLevel)
  hookError,      \* useState error
  streamRef,      \* streamRef.current        (0 = null, else session id)
  audioContextRef,\* audioContextRef.current  (0 = null, else session id)
  analyserRef,    \* analyserRef.current      (0 = null, else session id)
  processorRef,   \* processorRef.current     (0 = null, else session id)
  animationFrameRef, \* animationFrameRef.current (0 = undefined, else rAF id)
  samplesRef,     \* samplesRef.current: sequence of sample blocks
  peakLevelRef,   \* peakLevelRef.current: an RMS (see calculateRMS)
  calls,          \* startRecording calls: call id -> "pending"|"ok"|"failed"
  trackStops,     \* session id -> number of track.stop() on its stream
  procDisconnects,\* session id -> number of processor.disconnect()
  ctxCloses,      \* session id -> number of audioContext.close()
  ctxClosed,      \* set of sessions whose context has finished closing
  frames,         \* set of requested, not yet run or cancelled rAF ids
  lastStop,       \* what the last stopRecording call saw and resolved with
  mixed,          \* samplesRef.current holds a block that the processor now
                  \* in processorRef.current did not append
  \* ---- identify-song edge function (SpecId)
  env,            \* Deno.env: the three ACRCloud settings
  clock,          \* Date.now() in whole seconds
  idPc,           \* "idle" | "fetching" | "done"
  idReq,          \* the request being handled
  idSigned,       \* signature computations of this invocation
  idFetches,      \* upstream fetches issued by this invocation
  idSig,          \* what this invocation signed, and with which inputs
  idSigPrev,      \* what the latest earlier signing invocation signed
  idOut,          \* the multipart form sent upstream
  idUp,           \* how the upstream call settled
  idResp,         \* the Response returned
  idCalls,        \* handler invocations so far
  \* ---- Index page (SpecUi)
  isListening,    \* useState isListening
  isSearching,    \* useState isSearching
  searchResult,   \* useState searchResult (NoSong or the song shown)
  toast,          \* the toast raised last
  invokes,        \* identify-song requests awaiting their answer
  \* ---- recorder-based capture variants (SpecRec)
  recVariant,     \* which variant of the hook: "part_006" | "part_007"
  recSupported,   \* the types MediaRecorder.isTypeSupported answers true for
  recPc,          \* "idle" | "recording" | "stopping" | "resolved"
  mediaRecorderRef, \* mediaRecorderRef.current (NoRecorder = null)
  audioChunksRef, \* audioChunksRef.current: sizes of the chunks kept
  recEvents,      \* dataavailable events delivered so far
  recMimeType,    \* the const mimeType read by stopRecording
  recBlob         \* what stopRecording resolved with

encVars == <<encSamples, encRate, encOut, encPrev, encCalls>>
hookVars == <<isRecording, audioLevel, hookError, streamRef, audioContextRef,
              analyserRef, processorRef, animationFrameRef, samplesRef,
              peakLevelRef, calls, trackStops, procDisconnects, ctxCloses,
              ctxClosed, frames, lastStop, mixed>>
idVars == <<env, clock, idPc, idReq, idSigned, idFetches, idSig, idSigPrev,
            idOut, idUp, idResp, idCalls>>
uiVars == <<isListening, isSearching, searchResult, toast, invokes>>
recVars == <<recVariant, recSupported, recPc, mediaRecorderRef,
             audioChunksRef, recEvents, recMimeType, recBlob>>
vars == <<encVars, hookVars, idVars, uiVars, recVars>>

---------------------------------------------------------------------------
(* Bounds of the model.                                                    *)

\* Sample values are rationals k / SampleDen, k in -MaxAbs .. MaxAbs.
SampleDen == 2
MaxAbs == 3
\* Longest sample array handed to encodeWAV in SpecEnc.
MaxLen == 2
\* encodeWAV invocations per behaviour of SpecEnc.
MaxEncCalls == 2

---------------------------------------------------------------------------
(* Float samples.                                                          *)

\* The one non-numeric Float32 value that behaves differently: NaN.
NaN == MaxAbs + 1
IsNaN(v) == v = NaN
SampleVals == (-MaxAbs .. MaxAbs) \cup {NaN}

Min(a, b) == IF a < b THEN a ELSE b
Max(a, b) == IF a > b THEN a ELSE b

\* Math.max(-1, Math.min(1, v)): NaN propagates through both.
Clamp(v) == IF IsNaN(v) THEN NaN ELSE Max(-SampleDen, Min(SampleDen, v))

\* Truncation toward zero of n / d (the integer part ToInt16 keeps).
TruncDiv(n, d) == IF n >= 0 THEN n \div d ELSE -((-n) \div d)

\* DataView.setInt16's ToInt16: modulo 2^16, read back as two's complement.
ToInt16(n) ==
  LET m == n % 65536
  IN IF m >= 32768 THEN m - 65536 ELSE m

\* A conversion that scales both signs by 0x8000.
FloatTo16BitBug(v) ==
  LET s == Clamp(v)
  IN IF IsNaN(s) THEN 0
     ELSE ToInt16(TruncDiv(s * 32768, SampleDen))

\* s < 0 ? s * 0x8000 : s * 0x7FFF, stored by setInt16 (NaN stores 0).
FloatTo16Bit(v) ==
  LET s == Clamp(v)
  IN IF IsNaN(s) THEN 0
     ELSE IF s < 0 THEN ToInt16(TruncDiv(s * 32768, SampleDen))
     ELSE ToInt16(TruncDiv(s * 32767, SampleDen))

---------------------------------------------------------------------------
(* Bytes and the DataView.                                                 *)

U16LE(v) ==
  LET w == v % 65536
  IN <<w % 256, w \div 256>>

\* setUint32(off, v, true): v modulo 2^32, low byte first. Every value the
\* encoder stores here is below 2^31, where the four bytes are those of v.
U32LE(v) ==
  <<v % 256, (v \div 256) % 256, (v \div 65536) % 256,
    (v \div 16777216) % 256>>

CharCodeAt(c) ==
  CASE c = "R" -> 82 [] c = "I" -> 73 [] c = "F" -> 70 [] c = "W" -> 87
    [] c = "A" -> 65 [] c = "V" -> 86 [] c = "E" -> 69 [] c = "f" -> 102
    [] c = "m" -> 109 [] c = "t" -> 116 [] c = " " -> 32 [] c = "d" -> 100
    [] c = "a" -> 97

NewBuffer(n) == [i \in 1 .. n |-> 0]

\* Writes bs at byte offset off (0-based) of buf.
SetBytes(buf, off, bs) ==
  [i \in 1 .. Len(buf) |->
     IF i > off /\ i <= off + Len(bs) THEN bs[i - off] ELSE buf[i]]

writeString(buf, off, str) ==
  SetBytes(buf, off, [i \in 1 .. Len(str) |-> CharCodeAt(str[i])])

ReadU16(buf, off) == buf[off + 1] + 256 * buf[off + 2]
ReadU32(buf, off) ==
  buf[off + 1] + 256 * buf[off + 2] + 65536 * buf[off + 3]
    + 16777216 * buf[off + 4]
ReadI16(buf, off) ==
  LET u == ReadU16(buf, off)
  IN IF u >= 32768 THEN u - 65536 ELSE u

RECURSIVE WritePCM(_, _, _, _)
\* The conversion loop: sample i goes to offset 44 + 2(i-1).
WritePCM(buf, samples, i, offset) ==
  IF i > Len(samples) THEN buf
  ELSE WritePCM(SetBytes(buf, offset, U16LE(FloatTo16Bit(samples[i]))),
                samples, i + 1, offset + 2)

\* A header with the RIFF size and the byte rate miscounted.
WavHeaderBug(buf, n, sampleRate) ==
  LET b1 == writeString(buf, 0, <<"R", "I", "F", "F">>)
      b2 == SetBytes(b1, 4, U32LE(36 + n))
      b3 == writeString(b2, 8, <<"W", "A", "V", "E">>)
      b4 == writeString(b3, 12, <<"f", "m", "t", " ">>)
      b5 == SetBytes(b4, 16, U32LE(16))
      b6 == SetBytes(b5, 20, U16LE(1))
      b7 == SetBytes(b6, 22, U16LE(1))
      b8 == SetBytes(b7, 24, U32LE(sampleRate))
      b9 == SetBytes(b8, 28, U32LE(sampleRate))
      b10 == SetBytes(b9, 32, U16LE(2))
      b11 == SetBytes(b10, 34, U16LE(16))
      b12 == writeString(b11, 36, <<"d", "a", "t", "a">>)
  IN SetBytes(b12, 40, U32LE(n * 2))

\* The 44-byte header written by encodeWAV.
WavHeader(buf, n, sampleRate) ==
  LET b1 == writeString(buf, 0, <<"R", "I", "F", "F">>)
      b2 == SetBytes(b1, 4, U32LE(36 + n * 2))
      b3 == writeString(b2, 8, <<"W", "A", "V", "E">>)
      b4 == writeString(b3, 12, <<"f", "m", "t", " ">>)
      b5 == SetBytes(b4, 16, U32LE(16))
      b6 == SetBytes(b5, 20, U16LE(1))
      b7 == SetBytes(b6, 22, U16LE(1))
      b8 == SetBytes(b7, 24, U32LE(sampleRate))
      b9 == SetBytes(b8, 28, U32LE(sampleRate * 2))
      b10 == SetBytes(b9, 32, U16LE(2))
      b11 == SetBytes(b10, 34, U16LE(16))
      b12 == writeString(b11, 36, <<"d", "a", "t", "a">>)
  IN SetBytes(b12, 40, U32LE(n * 2))

\* An encoder that normalises by the session's peak level.
encodeWAVLeak(samples, sampleRate) ==
  LET n == Len(samples)
      buffer == NewBuffer(44 + n * 2)
      gained == [i \in 1 .. n |->
                   IF peakLevelRef.sum > 0 THEN samples[i] ELSE 0]
  IN WritePCM(WavHeader(buffer, n, sampleRate), gained, 1, 44)

\* encodeWAV(samples, sampleRate): the bytes of the Blob it returns.
encodeWAV(samples, sampleRate) ==
  LET n == Len(samples)
      buffer == NewBuffer(44 + n * 2)
  IN WritePCM(WavHeader(buffer, n, sampleRate), samples, 1, 44)

---------------------------------------------------------------------------
(* The useAudioRecorder hook.                                              *)

\* startRecording calls per behaviour (each call is one session id).
MaxStarts == 2
\* startRecording and stopRecording calls, together, per behaviour.
MaxOps == 3
\* Clicks on the listen button per behaviour (each click is one call of
\* startRecording or stopRecording).
MaxClicks == 4
\* Sample blocks the capture callback may append between two resets.
MaxBlocks == 2
\* Largest value of the displayed level (in abstract steps of avgLevel).
MaxLevel == 1

\* createScriptProcessor(4096, 1, 1): the block length, which the model
\* scales from 4096 samples to 1.
BlockLen == 1
\* new AudioContext({ sampleRate: 44100 }) and the `|| 44100` default.
ContextSampleRate == 44100

Sessions == 1 .. MaxStarts
\* The sample values the microphone delivers in the hook model: 0.0 and 1.0.
HookVals == {0, SampleDen}
Blocks == [1 .. BlockLen -> HookVals]

RECURSIVE SumSq(_, _)
SumSq(samples, i) ==
  IF i > Len(samples) THEN 0
  ELSE samples[i] * samples[i] + SumSq(samples, i + 1)

\* calculateRMS: sqrt(sum / length), kept as the fraction under the root
\* (sum of squares in 1/SampleDen^2 units, over the length); 0 for no samples.
calculateRMS(samples) ==
  IF Len(samples) = 0 THEN [sum |-> 0, n |-> 1]
  ELSE [sum |-> SumSq(samples, 1), n |-> Len(samples)]

\* a > b for two such roots.
RmsGT(a, b) == a.sum * b.n > b.sum * a.n

RECURSIVE CombineReversed(_, _)
\* A concatenation that lays the blocks end to end last block first.
CombineReversed(blocks, i) ==
  IF i > Len(blocks) THEN <<>>
  ELSE CombineReversed(blocks, i + 1) \o blocks[i]

RECURSIVE Combine(_, _)
\* The concatenation loop of stopRecording: blocks i.. laid end to end.
Combine(blocks, i) ==
  IF i > Len(blocks) THEN <<>>
  ELSE blocks[i] \o Combine(blocks, i + 1)

Null == [kind |-> "null"]
Wav(bytes) == [kind |-> "wav", type |-> "audio/wav", bytes |-> bytes]

\* requestAnimationFrame: ids are only ever compared with pending ones by
\* cancelAnimationFrame, and every request overwrites animationFrameRef, so
\* the smallest id not pending stands for the fresh id the platform returns.
FreshFrame(pending) ==
  CHOOSE f \in 1 .. (Cardinality(pending) + 1) : f \notin pending

NoStop == [count |-> 0, wasRecording |-> FALSE, nBlocks |-> 0,
           result |-> Null, stream |-> 0, ctx |-> 0, proc |-> 0,
           starts |-> 0, blocks |-> <<>>]

\* Calls of startRecording made so far.
StartsSoFar == Cardinality({s \in Sessions : calls[s] # "none"})

\* Calls of startRecording and stopRecording made so far.
OpsSoFar == StartsSoFar + lastStop.count

\* What getUserMedia rejects with: NotAllowedError or NotFoundError.
MicErrors ==
  {[isError |-> TRUE, message |-> "Permission denied"],
   [isError |-> TRUE, message |-> "Requested device not found"]}

\* err instanceof Error ? err.message : 'Failed to access microphone'
MicErrorMessage(err) ==
  IF err.isError THEN err.message ELSE "Failed to access microphone"

InitHook ==
  /\ isRecording = FALSE
  /\ audioLevel = 0
  /\ hookError = "null"
  /\ streamRef = 0
  /\ audioContextRef = 0
  /\ analyserRef = 0
  /\ processorRef = 0
  /\ animationFrameRef = 0
  /\ samplesRef = <<>>
  /\ peakLevelRef = [sum |-> 0, n |-> 1]
  /\ calls = [s \in Sessions |-> "none"]
  /\ trackStops = [s \in Sessions |-> 0]
  /\ procDisconnects = [s \in Sessions |-> 0]
  /\ ctxCloses = [s \in Sessions |-> 0]
  /\ ctxClosed = {}
  /\ frames = {}
  /\ lastStop = NoStop
  /\ mixed = FALSE

\* startRecording up to its await: the resets, then getUserMedia is asked.
StartRecording ==
  /\ \E s \in Sessions :
       /\ calls[s] = "none"
       /\ \A t \in Sessions : t < s => calls[t] # "none"
       /\ calls' = [calls EXCEPT ![s] = "pending"]
  /\ hookError' = "null"
  /\ samplesRef' = <<>>
  /\ peakLevelRef' = [sum |-> 0, n |-> 1]
  /\ mixed' = FALSE
  /\ UNCHANGED <<isRecording, audioLevel, streamRef, audioContextRef,
                 analyserRef, processorRef, animationFrameRef, trackStops,
                 procDisconnects, ctxCloses, ctxClosed, frames, lastStop>>

\* getUserMedia resolved for call s: the rest of startRecording's try block,
\* ending with setIsRecording(true) and the first updateAudioData().
GetUserMediaResolve(s) ==
  /\ calls[s] = "pending"
  /\ calls' = [calls EXCEPT ![s] = "ok"]
  /\ streamRef' = s
  /\ audioContextRef' = s
  /\ analyserRef' = s
  /\ processorRef' = s
  /\ isRecording' = TRUE
  /\ \E lvl \in 0 .. MaxLevel : audioLevel' = lvl
  /\ LET f == FreshFrame(frames)
     IN /\ animationFrameRef' = f
        /\ frames' = frames \cup {f}
  /\ mixed' = (mixed \/ Len(samplesRef) > 0)
  /\ UNCHANGED <<hookError, samplesRef, peakLevelRef, trackStops,
                 procDisconnects, ctxCloses, ctxClosed, lastStop>>

\* A catch block that swallows the rejection.
GetUserMediaRejectSilent(s) ==
  /\ calls[s] = "pending"
  /\ calls' = [calls EXCEPT ![s] = "failed"]
  /\ hookError' = hookError
  /\ UNCHANGED <<isRecording, audioLevel, streamRef, audioContextRef,
                 analyserRef, processorRef, animationFrameRef, samplesRef,
                 peakLevelRef, trackStops, procDisconnects, ctxCloses,
                 ctxClosed, frames, lastStop, mixed>>

\* getUserMedia rejected (permission denied, no device): the catch block.
GetUserMediaReject(s) ==
  /\ calls[s] = "pending"
  /\ calls' = [calls EXCEPT ![s] = "failed"]
  /\ \E err \in MicErrors : hookError' = MicErrorMessage(err)
  /\ UNCHANGED <<isRecording, audioLevel, streamRef, audioContextRef,
                 analyserRef, processorRef, animationFrameRef, samplesRef,
                 peakLevelRef, trackStops, procDisconnects, ctxCloses,
                 ctxClosed, frames, lastStop, mixed>>

\* A capture callback that still runs after its context has closed.
OnAudioProcessClosed(p) ==
  /\ calls[p] = "ok"
  /\ Len(samplesRef) < MaxBlocks
  /\ \E inputData \in Blocks :
       LET clone == inputData
           rms == calculateRMS(clone)
       IN /\ samplesRef' = Append(samplesRef, clone)
          /\ peakLevelRef' = IF RmsGT(rms, peakLevelRef) THEN rms
                             ELSE peakLevelRef
  /\ mixed' = (mixed \/ p # processorRef)
  /\ UNCHANGED <<isRecording, audioLevel, hookError, streamRef,
                 audioContextRef, analyserRef, processorRef,
                 animationFrameRef, calls, trackStops, procDisconnects,
                 ctxCloses, ctxClosed, frames, lastStop>>

\* A capture callback that keeps the level of the latest block as the peak.
OnAudioProcessLastRms(p) ==
  /\ calls[p] = "ok"
  /\ p \notin ctxClosed
  /\ Len(samplesRef) < MaxBlocks
  /\ \E inputData \in Blocks :
       LET clone == inputData
           rms == calculateRMS(clone)
       IN /\ samplesRef' = Append(samplesRef, clone)
          /\ peakLevelRef' = rms
  /\ mixed' = (mixed \/ p # processorRef)
  /\ UNCHANGED <<isRecording, audioLevel, hookError, streamRef,
                 audioContextRef, analyserRef, processorRef,
                 animationFrameRef, calls, trackStops, procDisconnects,
                 ctxCloses, ctxClosed, frames, lastStop>>

\* onaudioprocess of session p's processor. The node keeps its input
\* connection after disconnect(), so whether the platform still delivers
\* blocks before the context has closed is left open.
OnAudioProcess(p) ==
  /\ calls[p] = "ok"
  /\ p \notin ctxClosed
  /\ Len(samplesRef) < MaxBlocks
  /\ \E inputData \in Blocks :
       LET clone == inputData
           rms == calculateRMS(clone)
       IN /\ samplesRef' = Append(samplesRef, clone)
          /\ peakLevelRef' = IF RmsGT(rms, peakLevelRef) THEN rms
                             ELSE peakLevelRef
  /\ mixed' = (mixed \/ p # processorRef)
  /\ UNCHANGED <<isRecording, audioLevel, hookError, streamRef,
                 audioContextRef, analyserRef, processorRef,
                 animationFrameRef, calls, trackStops, procDisconnects,
                 ctxCloses, ctxClosed, frames, lastStop>>

\* A feed callback that publishes once and requests no further frame.
FrameOnce(f) ==
  /\ f \in frames
  /\ \E lvl \in 0 .. MaxLevel : audioLevel' = lvl
  /\ frames' = frames \ {f}
  /\ UNCHANGED <<isRecording, hookError, streamRef, audioContextRef,
                 analyserRef, processorRef, animationFrameRef, samplesRef,
                 peakLevelRef, calls, trackStops, procDisconnects, ctxCloses,
                 ctxClosed, lastStop, mixed>>

\* A pending animation frame f runs updateAudioData.
Frame(f) ==
  /\ f \in frames
  /\ IF analyserRef = 0
       THEN /\ frames' = frames \ {f}
            /\ UNCHANGED <<audioLevel, animationFrameRef>>
       ELSE /\ \E lvl \in 0 .. MaxLevel : audioLevel' = lvl
            /\ LET g == FreshFrame(frames \ {f})
               IN /\ animationFrameRef' = g
                  /\ frames' = (frames \ {f}) \cup {g}
  /\ UNCHANGED <<isRecording, hookError, streamRef, audioContextRef,
                 analyserRef, processorRef, samplesRef, peakLevelRef, calls,
                 trackStops, procDisconnects, ctxCloses, ctxClosed,
                 lastStop, mixed>>

\* A stop that leaves resource k as it is.
ReleaseSkipped(f, k) == f

\* if (ref.current) release it: one more release of resource k, when there
\* is one.
Release(f, k) == IF k = 0 THEN f ELSE [f EXCEPT ![k] = @ + 1]

\* A stop that turns away a recording of a single block.
StopResultMinDuration(combinedSamples, sampleRate) ==
  IF Len(combinedSamples) = 0 THEN Null
  ELSE IF Len(combinedSamples) <= BlockLen THEN [kind |-> "rejected"]
  ELSE Wav(encodeWAV(combinedSamples, sampleRate))

\* A stop that drops a recording whose samples are all zero.
StopResultDropSilent(combinedSamples, sampleRate) ==
  IF Len(combinedSamples) = 0 \/ calculateRMS(combinedSamples).sum = 0
    THEN Null
  ELSE Wav(encodeWAV(combinedSamples, sampleRate))

\* What stopRecording resolves with.
StopResult(combinedSamples, sampleRate) ==
  IF Len(combinedSamples) = 0 THEN Null
  ELSE Wav(encodeWAV(combinedSamples, sampleRate))

\* stopRecording: the whole promise executor, which runs synchronously.
StopRecording ==
  /\ frames' = IF animationFrameRef # 0 THEN frames \ {animationFrameRef}
               ELSE frames
  /\ procDisconnects' = Release(procDisconnects, processorRef)
  /\ trackStops' = Release(trackStops, streamRef)
  /\ isRecording' = FALSE
  /\ audioLevel' = 0
  /\ ctxCloses' = Release(ctxCloses, audioContextRef)
  /\ LET combinedSamples == Combine(samplesRef, 1)
         sampleRate == ContextSampleRate
     IN lastStop' = [count |-> lastStop.count + 1,
                     wasRecording |-> isRecording,
                     nBlocks |-> Len(samplesRef),
                     result |-> StopResult(combinedSamples, sampleRate),
                     stream |-> streamRef,
                     ctx |-> audioContextRef,
                     proc |-> processorRef,
                     starts |-> StartsSoFar,
                     blocks |-> samplesRef]
  /\ UNCHANGED <<hookError, streamRef, audioContextRef, analyserRef,
                 processorRef, animationFrameRef, samplesRef, peakLevelRef,
                 calls, ctxClosed, mixed>>

\* The promise of audioContext.close() settles: the context is closed.
ContextClosed(s) ==
  /\ ctxCloses[s] > 0
  /\ s \notin ctxClosed
  /\ ctxClosed' = ctxClosed \cup {s}
  /\ UNCHANGED <<isRecording, audioLevel, hookError, streamRef,
                 audioContextRef, analyserRef, processorRef,
                 animationFrameRef, samplesRef, peakLevelRef, calls,
                 trackStops, procDisconnects, ctxCloses, frames, lastStop,
                 mixed>>

---------------------------------------------------------------------------
(* The identify-song edge function.                                        *)

\* Handler invocations per behaviour.
MaxIdCalls == 2
\* Date.now() / 1000 runs over ClockStart .. MaxClock.
ClockStart == 9
MaxClock == 10

\* The byte-size floor of the size validation.
SizeFloor == 50000

\* A floor that also turns away a file of exactly the floor.
TooSmallBug(size) == size <= SizeFloor

\* if (audioFile.size < 50000)
TooSmall(size) == size < SizeFloor

\* JavaScript values that are tested for truthiness.
Undef == [t |-> "undefined"]
Str(v) == [t |-> "string", v |-> v]
Truthy(x) == x.t = "string" /\ x.v # ""

Digit(d) ==
  CASE d = 0 -> "0" [] d = 1 -> "1" [] d = 2 -> "2" [] d = 3 -> "3"
    [] d = 4 -> "4" [] d = 5 -> "5" [] d = 6 -> "6" [] d = 7 -> "7"
    [] d = 8 -> "8" [] d = 9 -> "9"

RECURSIVE toString(_)
\* Number.prototype.toString() of a non-negative integer.
toString(n) ==
  IF n < 10 THEN Digit(n) ELSE toString(n \div 10) \o Digit(n % 10)

RECURSIVE Join(_, _)
\* Array.prototype.join(sep).
Join(parts, sep) ==
  IF Len(parts) = 0 THEN ""
  ELSE IF Len(parts) = 1 THEN parts[1]
  ELSE parts[1] \o sep \o Join(Tail(parts), sep)

\* A string-to-sign without the timestamp.
StringToSignNoTime(accessKey, timestamp) ==
  Join(<<"POST", "/v1/identify", accessKey, "audio", "1">>, "\n")

\* A string-to-sign with two fields swapped and a trailing separator.
StringToSignBug(accessKey, timestamp) ==
  Join(<<"POST", "/v1/identify", accessKey, "1", "audio", timestamp>>, "\n")
    \o "\n"

\* const stringToSign = [ ... ].join('\n')
StringToSign(accessKey, timestamp) ==
  LET dataType == "audio"
      signatureVersion == "1"
  IN Join(<<"POST", "/v1/identify", accessKey, dataType, signatureVersion,
            timestamp>>, "\n")

\* TextEncoder.encode, HMAC-SHA1 and base64 are taken as ideal (injective)
\* functions: each is a constructor of its arguments.
TextEncode(str) == [utf8 |-> str]
HmacSha1(keyData, messageData) ==
  [alg |-> "HMAC-SHA-1", key |-> keyData, msg |-> messageData]
base64Encode(buf) == [base64 |-> buf]

\* importKey(encode(accessSecret)) then sign('HMAC', key, encode(stringToSign)).
Signature(accessSecret, stringToSign) ==
  base64Encode(HmacSha1(TextEncode(accessSecret), TextEncode(stringToSign)))

NoFile == [t |-> "null"]
\* An uploaded file: its content (an opaque recording), byte size, type and
\* name.
File(data, size, type, name) ==
  [t |-> "file", data |-> data, size |-> size, type |-> type, name |-> name]
FileSizes == {SizeFloor - 1, SizeFloor, SizeFloor + 1}
FileVals ==
  {File("recordingA", n, "", "") : n \in FileSizes}
    \cup {File("recordingB", n, "audio/wav", "recording.webm") :
            n \in FileSizes}
AudioVals == {NoFile, Str(""), Str("text")} \cup FileVals
\* formData.get('audio') is falsy: the field is missing or an empty string.
AudioFalsy(a) == a.t = "null" \/ (a.t = "string" /\ a.v = "")

Requests ==
  {[method |-> "OPTIONS", body |-> "none", audio |-> NoFile],
   [method |-> "POST", body |-> "none", audio |-> NoFile]}
    \cup {[method |-> "POST", body |-> "form", audio |-> a] : a \in AudioVals}

KeyVals == {Undef, Str(""), Str("ak"), Str("ak\n1")}
SecretVals == {Undef, Str(""), Str("s1"), Str("s2")}
HostVals == {Undef, Str("identify-eu-west-1.acrcloud.com")}
Envs == [key : KeyVals, secret : SecretVals, host : HostVals]

\* A check for undefined only, which lets an empty string through.
CredentialsMissingBug(e) ==
  e.key.t = "undefined" \/ e.secret.t = "undefined" \/ e.host.t = "undefined"

\* if (!accessKey || !accessSecret || !host)
CredentialsMissing(e) == ~Truthy(e.key) \/ ~Truthy(e.secret) \/ ~Truthy(e.host)

\* An error body whose message is lost.
ErrorResponseBug(status, message) ==
  [kind |-> "error", status |-> status, error |-> ""]

\* new Response(JSON.stringify({ error }), { status, ... })
ErrorResponse(status, message) ==
  [kind |-> "error", status |-> status, error |-> message]
NoResponse == [kind |-> "none", status |-> 0]

\* The values a throw can carry: an Error with its message.
Err(message) == [isError |-> TRUE, message |-> message]

\* A catch block that answers with a fixed text.
CatchResponseBug(error) == ErrorResponse(500, "Failed to identify song")

\* The catch block: 500 with the message of the Error caught.
CatchResponse(error) ==
  ErrorResponse(500, IF error.isError THEN error.message
                     ELSE "Failed to identify song")

\* await audioFile.arrayBuffer(): the file's bytes and their count.
ArrayBufferOf(audioFile) == [data |-> audioFile.data, length |-> audioFile.size]

\* A form whose sample is always labelled audio/webm and whose sample_bytes
\* counts one byte too many.
AcrFormDataBug(audioFile, audioBytes, accessKey, signature, timestamp) ==
  [sample |-> [bytes |-> audioBytes, type |-> "audio/webm",
               name |-> "audio.webm"],
   access_key |-> accessKey,
   data_type |-> "audio",
   signature_version |-> "1",
   signature |-> signature,
   sample_bytes |-> toString(audioBytes.length + 1),
   timestamp |-> timestamp]

\* A form whose timestamp field is read from the clock again, in
\* milliseconds.
AcrFormDataRestamped(audioFile, audioBytes, accessKey, signature, timestamp) ==
  LET contentType == IF audioFile.type # "" THEN audioFile.type
                     ELSE "audio/webm"
      fileName == IF audioFile.name # "" THEN audioFile.name
                  ELSE "audio.webm"
  IN [sample |-> [bytes |-> audioBytes, type |-> contentType,
                  name |-> fileName],
      access_key |-> accessKey,
      data_type |-> "audio",
      signature_version |-> "1",
      signature |-> signature,
      sample_bytes |-> toString(audioBytes.length),
      timestamp |-> timestamp \o "000"]

\* acrFormData: the seven fields appended to the multipart body.
AcrFormData(audioFile, audioBytes, accessKey, signature, timestamp) ==
  LET contentType == IF audioFile.type # "" THEN audioFile.type
                     ELSE "audio/webm"
      fileName == IF audioFile.name # "" THEN audioFile.name
                  ELSE "audio.webm"
  IN [sample |-> [bytes |-> audioBytes, type |-> contentType,
                  name |-> fileName],
      access_key |-> accessKey,
      data_type |-> "audio",
      signature_version |-> "1",
      signature |-> signature,
      sample_bytes |-> toString(audioBytes.length),
      timestamp |-> timestamp]

\* fetch(`https://${host}/v1/identify`, ...)
FetchUrl(host) == "https://" \o host \o "/v1/identify"
NoSig == [made |-> FALSE]
NoForm == [sent |-> FALSE]
NoUpstream == [k |-> "none"]

\* A handler that looks at the credentials before it looks at the audio.
HandlePrefixCredentialsFirst(req, e, now) ==
  IF req.method = "OPTIONS"
    THEN [resp |-> [kind |-> "preflight", status |-> 200], sig |-> NoSig,
          form |-> NoForm]
  ELSE IF req.body # "form"
    THEN [resp |-> CatchResponse(Err("formData: body is not form data")),
          sig |-> NoSig, form |-> NoForm]
  ELSE IF CredentialsMissing(e)
    THEN [resp |-> ErrorResponse(500, "ACRCloud credentials not configured"),
          sig |-> NoSig, form |-> NoForm]
  ELSE IF AudioFalsy(req.audio)
    THEN [resp |-> ErrorResponse(400, "No audio file provided"),
          sig |-> NoSig, form |-> NoForm]
  ELSE IF req.audio.t # "file"
    THEN [resp |-> CatchResponse(Err("audioFile.arrayBuffer is not a function")),
          sig |-> NoSig, form |-> NoForm]
  ELSE IF TooSmall(req.audio.size)
    THEN [resp |-> ErrorResponse(400,
            "Recording too short. Please record at least 5-10 seconds of clear audio."),
          sig |-> NoSig, form |-> NoForm]
  ELSE
    LET accessKey == e.key.v
        accessSecret == e.secret.v
        timestamp == toString(now)
        stringToSign == StringToSign(accessKey, timestamp)
        signature == Signature(accessSecret, stringToSign)
        audioBytes == ArrayBufferOf(req.audio)
    IN [resp |-> NoResponse,
        sig |-> [made |-> TRUE, key |-> accessKey, secret |-> accessSecret,
                 timestamp |-> timestamp, stringToSign |-> stringToSign,
                 signature |-> signature],
        form |-> [sent |-> TRUE, url |-> FetchUrl(e.host.v)]
                   @@ AcrFormData(req.audio, audioBytes, accessKey, signature,
                                  timestamp)]

\* The first part of the handler, up to `await fetch(...)`: what it answers
\* at once, or the upstream request it issues.
HandlePrefix(req, e, now) ==
  IF req.method = "OPTIONS"
    THEN [resp |-> [kind |-> "preflight", status |-> 200], sig |-> NoSig,
          form |-> NoForm]
  ELSE IF req.body # "form"
    \* await req.formData() rejects: the catch block answers.
    THEN [resp |-> CatchResponse(Err("formData: body is not form data")),
          sig |-> NoSig, form |-> NoForm]
  ELSE IF AudioFalsy(req.audio)
    THEN [resp |-> ErrorResponse(400, "No audio file provided"),
          sig |-> NoSig, form |-> NoForm]
  ELSE IF req.audio.t # "file"
    \* a text field: audioFile.arrayBuffer is not a function.
    THEN [resp |-> CatchResponse(Err("audioFile.arrayBuffer is not a function")),
          sig |-> NoSig, form |-> NoForm]
  ELSE IF TooSmall(req.audio.size)
    THEN [resp |-> ErrorResponse(400,
            "Recording too short. Please record at least 5-10 seconds of clear audio."),
          sig |-> NoSig, form |-> NoForm]
  ELSE IF CredentialsMissing(e)
    THEN [resp |-> ErrorResponse(500, "ACRCloud credentials not configured"),
          sig |-> NoSig, form |-> NoForm]
  ELSE
    LET accessKey == e.key.v
        accessSecret == e.secret.v
        timestamp == toString(now)
        stringToSign == StringToSign(accessKey, timestamp)
        signature == Signature(accessSecret, stringToSign)
        audioBytes == ArrayBufferOf(req.audio)
    IN [resp |-> NoResponse,
        sig |-> [made |-> TRUE, key |-> accessKey, secret |-> accessSecret,
                 timestamp |-> timestamp, stringToSign |-> stringToSign,
                 signature |-> signature],
        form |-> [sent |-> TRUE, url |-> FetchUrl(e.host.v)]
                   @@ AcrFormData(req.audio, audioBytes, accessKey, signature,
                                  timestamp)]

InitId ==
  /\ env \in Envs
  /\ clock = ClockStart
  /\ idPc = "idle"
  /\ idReq = [method |-> "OPTIONS", body |-> "none", audio |-> NoFile]
  /\ idSigned = 0
  /\ idFetches = 0
  /\ idSig = NoSig
  /\ idSigPrev = NoSig
  /\ idOut = NoForm
  /\ idUp = NoUpstream
  /\ idResp = NoResponse
  /\ idCalls = 0

\* A request arrives and the handler runs up to its answer or to the fetch.
Invoke(req) ==
  /\ idPc \in {"idle", "done"}
  /\ idCalls < MaxIdCalls
  /\ LET h == HandlePrefix(req, env, clock)
     IN /\ idReq' = req
        /\ idCalls' = idCalls + 1
        /\ idSig' = h.sig
        /\ idSigPrev' = IF idSig.made THEN idSig ELSE idSigPrev
        /\ idSigned' = IF h.sig.made THEN 1 ELSE 0
        /\ idOut' = h.form
        /\ idFetches' = IF h.form.sent THEN 1 ELSE 0
        /\ idResp' = h.resp
        /\ idPc' = IF h.form.sent THEN "fetching" ELSE "done"
        /\ idUp' = NoUpstream
  /\ UNCHANGED <<env, clock>>

\* What the upstream call can come to.
NoMusic == [t |-> "absent"]
EmptyMusic == [t |-> "empty"]
Candidate(artists, spotifyId, isrc) ==
  [t |-> "first", title |-> "Bohemian Rhapsody", artists |-> artists,
   spotifyId |-> spotifyId, isrc |-> isrc]
\* music.artists: missing, or a list of entries with or without a name.
Arr(items) == [t |-> "array", items |-> items]
Named(n) == [name |-> n]
ArtistsVals ==
  {Undef, Arr(<<>>), Arr(<<Named(Undef)>>), Arr(<<Named(Str(""))>>),
   Arr(<<Named(Str("Queen"))>>),
   Arr(<<Named(Str("Queen")), Named(Str("David Bowie"))>>)}
MusicVals ==
  {NoMusic, EmptyMusic}
    \cup {Candidate(Arr(<<Named(Str("Queen"))>>), sp, i) :
            sp \in {Undef, Str(""), Str("4u7EnebtmKWzUH433cf5Qv")},
            i \in {Undef, Str(""), Str("GBUM71029604")}}
    \cup {Candidate(a, Undef, Undef) : a \in ArtistsVals}
Upstreams ==
  {[k |-> "reject", err |-> Err(m)] :
     m \in {"error sending request", "dns error: failed to lookup address"}}
    \cup {[k |-> "badjson", err |-> Err("Unexpected token < in JSON at position 0")],
          [k |-> "nostatus",
           err |-> Err("Cannot read properties of undefined (reading 'code')")]}
    \cup {[k |-> "json", code |-> c, msg |-> m, music |-> NoMusic] :
            c \in {1001, 2004, 3003},
            m \in {Undef, Str(""), Str("Limit exceeded")}}
    \cup {[k |-> "json", code |-> 0, msg |-> Str("Success"), music |-> mu] :
            mu \in MusicVals}

\* The two links in the opposite order of preference.
ExternalUrlBug(music) ==
  IF Truthy(music.isrc)
    THEN Str("https://www.spotify.com/search/" \o music.isrc.v)
  ELSE IF Truthy(music.spotifyId)
    THEN Str("https://open.spotify.com/track/" \o music.spotifyId.v)
  ELSE Undef

\* songData.externalUrl
ExternalUrl(music) ==
  IF Truthy(music.spotifyId)
    THEN Str("https://open.spotify.com/track/" \o music.spotifyId.v)
  ELSE IF Truthy(music.isrc)
    THEN Str("https://www.spotify.com/search/" \o music.isrc.v)
  ELSE Undef

NoMusicDetected ==
  "No music detected in the recording. Play a song loudly near your microphone and try again."
NotRecognized ==
  "Song not recognized. Try a different part of the song or a more popular track."

\* The guidance for the two known codes, given the other way round.
StatusMessageBug(code, msg) ==
  IF code = 2004 THEN NotRecognized
  ELSE IF code = 1001 THEN NoMusicDetected
  ELSE IF Truthy(msg) THEN msg.v ELSE "Song not found"

\* let errorMessage = result.status.msg || 'Song not found', replaced for
\* the codes 2004 and 1001.
StatusMessage(code, msg) ==
  IF code = 2004 THEN NoMusicDetected
  ELSE IF code = 1001 THEN NotRecognized
  ELSE IF Truthy(msg) THEN msg.v ELSE "Song not found"

\* An answer for a missing first match that is not the 404.
NotFoundResponseBug(music) == ErrorResponse(500, "Song not found")

\* if (!music): the answer when metadata.music has no first element.
NotFoundResponse(music) == ErrorResponse(404, "Song not found")

\* music.artists?.[0]?.name
FirstArtistName(music) ==
  IF music.artists.t # "array" THEN Undef
  ELSE IF Len(music.artists.items) = 0 THEN Undef
  ELSE music.artists.items[1].name

\* An artist that falls back only when the name is missing.
ArtistBug(music) ==
  LET name == FirstArtistName(music)
  IN IF name.t = "string" THEN name.v ELSE "Unknown Artist"

\* songData.artist: music.artists?.[0]?.name || 'Unknown Artist'
Artist(music) ==
  LET name == FirstArtistName(music)
  IN IF Truthy(name) THEN name.v ELSE "Unknown Artist"

\* The handler from the settling of fetch to its Response.
HandleUpstream(up) ==
  IF up.k \in {"reject", "badjson", "nostatus"}
    \* fetch rejects, acrResponse.json() rejects, or result.status.code
    \* throws: the catch block answers.
    THEN CatchResponse(up.err)
  ELSE IF up.code # 0
    THEN ErrorResponse(404, StatusMessage(up.code, up.msg))
  ELSE IF up.music.t # "first"
    THEN NotFoundResponse(up.music)
  ELSE [kind |-> "song", status |-> 200,
        song |-> [title |-> up.music.title,
                  artist |-> Artist(up.music),
                  externalUrl |-> ExternalUrl(up.music)]]

\* A handler that sends the request again when the fetch is rejected.
UpstreamSettleRetry(up) ==
  /\ idPc = "fetching"
  /\ idUp' = up
  /\ IF up.k = "reject" /\ idFetches < 2
       THEN /\ idFetches' = idFetches + 1
            /\ idPc' = "fetching"
            /\ idResp' = idResp
       ELSE /\ idFetches' = idFetches
            /\ idPc' = "done"
            /\ idResp' = HandleUpstream(up)
  /\ UNCHANGED <<env, clock, idReq, idSigned, idSig, idSigPrev, idOut,
                 idCalls>>

\* The upstream call settles and the handler answers.
UpstreamSettle(up) ==
  /\ idPc = "fetching"
  /\ idUp' = up
  /\ idResp' = HandleUpstream(up)
  /\ idPc' = "done"
  /\ UNCHANGED <<env, clock, idReq, idSigned, idFetches, idSig, idSigPrev,
                 idOut, idCalls>>

\* A second of wall-clock time passes.
Tick ==
  /\ clock < MaxClock
  /\ clock' = clock + 1
  /\ UNCHANGED <<env, idPc, idReq, idSigned, idFetches, idSig, idSigPrev,
                 idOut, idUp, idResp, idCalls>>

\* One of the deployment's secrets is changed between two requests; the
\* exchange before it is over.
Reconfigure ==
  /\ idPc \in {"idle", "done"}
  /\ idCalls < MaxIdCalls
  /\ \E e \in Envs :
       /\ Cardinality({f \in {"key", "secret", "host"} : e[f] # env[f]}) = 1
       /\ env' = e
  /\ idPc' = "idle"
  /\ idReq' = [method |-> "OPTIONS", body |-> "none", audio |-> NoFile]
  /\ idSigned' = 0
  /\ idFetches' = 0
  /\ idSig' = NoSig
  /\ idSigPrev' = IF idSig.made THEN idSig ELSE idSigPrev
  /\ idOut' = NoForm
  /\ idUp' = NoUpstream
  /\ idResp' = NoResponse
  /\ UNCHANGED <<clock, idCalls>>

---------------------------------------------------------------------------
(* The encoder harness: encodeWAV applied to drawn inputs.                 *)

RECURSIVE SeqsUpTo(_, _)
\* All sequences over S of length at most n.
SeqsUpTo(S, n) ==
  IF n = 0 THEN {<<>>}
  ELSE LET shorter == SeqsUpTo(S, n - 1)
       IN shorter \cup {Append(q, v) : q \in shorter, v \in S}

RateVals == {ContextSampleRate, 48000}
\* The rest of the hook's state at an invocation: a silent session (peak
\* level 0, displayed level 0) or a loud one.
AmbientVals ==
  {[peak |-> [sum |-> 0, n |-> 1], level |-> 0],
   [peak |-> [sum |-> SampleDen * SampleDen, n |-> 1], level |-> MaxLevel]}

NoCall == [bytes |-> <<>>, peak |-> [sum |-> 0, n |-> 1], level |-> 0]

InitEncIdle ==
  /\ encSamples = <<>>
  /\ encRate = ContextSampleRate
  /\ encOut = NoCall
  /\ encPrev = NoCall
  /\ encCalls = 0

InitEnc ==
  /\ encSamples \in SeqsUpTo(SampleVals, MaxLen)
  /\ encRate \in RateVals
  /\ encOut = NoCall
  /\ encPrev = NoCall
  /\ encCalls = 0

InitIdIdle ==
  /\ env = [key |-> Undef, secret |-> Undef, host |-> Undef]
  /\ clock = ClockStart
  /\ idPc = "idle"
  /\ idReq = [method |-> "OPTIONS", body |-> "none", audio |-> NoFile]
  /\ idSigned = 0
  /\ idFetches = 0
  /\ idSig = NoSig
  /\ idSigPrev = NoSig
  /\ idOut = NoForm
  /\ idUp = NoUpstream
  /\ idResp = NoResponse
  /\ idCalls = 0

\* One invocation of encodeWAV on the drawn input.
EncodeCall ==
  /\ encCalls < MaxEncCalls
  /\ encPrev' = encOut
  /\ encOut' = [bytes |-> encodeWAV(encSamples, encRate),
                peak |-> peakLevelRef, level |-> audioLevel]
  /\ encCalls' = encCalls + 1
  /\ UNCHANGED <<encSamples, encRate, hookVars, idVars, uiVars, recVars>>

\* Between two invocations the rest of the hook's state moves.
AmbientChange ==
  /\ \E a \in AmbientVals :
       /\ <<a.peak, a.level>> # <<peakLevelRef, audioLevel>>
       /\ peakLevelRef' = a.peak
       /\ audioLevel' = a.level
  /\ UNCHANGED <<encVars, isRecording, hookError, streamRef, audioContextRef,
                 analyserRef, processorRef, animationFrameRef, samplesRef,
                 calls, trackStops, procDisconnects, ctxCloses, ctxClosed,
                 frames, lastStop, mixed, idVars, uiVars, recVars>>

---------------------------------------------------------------------------
(* The Index page: handleListenClick over the hook and the edge function.  *)

NoToast == [title |-> "none", description |-> ""]
\* searchResult === null
NoSong == [t |-> "null"]

InitUi ==
  /\ isListening = FALSE
  /\ isSearching = FALSE
  /\ searchResult = NoSong
  /\ toast = NoToast
  /\ invokes = {}

\* audioBlob.type.includes('mp4') ? 'mp4' : 'webm'
Extension(type) == IF type \in {"audio/mp4", "video/mp4"} THEN "mp4" ELSE "webm"

\* formData.append('audio', audioBlob, `recording.${extension}`): the POST
\* the edge function receives.  A block of the model stands for 4096
\* samples, so the byte size of the upload is drawn on either side of the
\* edge function's size floor.
UploadRequest(audioBlob, size) ==
  [method |-> "POST", body |-> "form",
   audio |-> File("recording", size, audioBlob.type,
                  "recording." \o Extension(audioBlob.type))]

\* The deployments the page runs against: secrets set or not set.
UiEnvs ==
  {[key |-> Str("ak"), secret |-> Str("s1"),
    host |-> Str("identify-eu-west-1.acrcloud.com")],
   [key |-> Undef, secret |-> Undef, host |-> Undef]}

\* How the recognition service answers the page's upload.
UiUpstreams ==
  {[k |-> "reject", err |-> Err("error sending request")],
   [k |-> "json", code |-> 2004, msg |-> Str("Decode audio error"),
    music |-> NoMusic],
   [k |-> "json", code |-> 1001, msg |-> Str("No result"),
    music |-> NoMusic],
   [k |-> "json", code |-> 0, msg |-> Str("Success"), music |-> EmptyMusic],
   [k |-> "json", code |-> 0, msg |-> Str("Success"),
    music |-> Candidate(Arr(<<Named(Str("Queen"))>>), Undef, Undef)]}

\* The Response of the edge function to one upload.
EdgeResponse(req, e, up) ==
  LET h == HandlePrefix(req, e, ClockStart)
  IN IF h.form.sent THEN HandleUpstream(up) ELSE h.resp

\* await supabase.functions.invoke('identify-song', { body }): a 2xx answer
\* becomes data, any other answer an error; the function may also be out of
\* reach, and the awaited call (or the use of data) may throw.
FunctionsInvoke(resp) ==
  IF resp.kind = "song" THEN [k |-> "data", data |-> resp.song, resp |-> resp]
  ELSE [k |-> "error", name |-> "FunctionsHttpError", resp |-> resp]
FetchError == [k |-> "error", name |-> "FunctionsFetchError", resp |-> NoResponse]
Thrown == [k |-> "threw", resp |-> NoResponse]

\* Everything the awaited invoke can come to for a recording.
InvokeOutcomes(audioBlob) ==
  {FunctionsInvoke(EdgeResponse(UploadRequest(audioBlob, size), e, up)) :
     size \in {SizeFloor - 1, SizeFloor}, e \in UiEnvs, up \in UiUpstreams}
    \cup {FetchError, Thrown}

\* The types of the blobs stopRecording resolves with, and for each the
\* outcomes of its upload.
BlobTypes == {Wav(<<>>).type}
UploadOutcomes == [type \in BlobTypes |-> InvokeOutcomes([type |-> type])]

SongNotFoundToast ==
  [title |-> "Song Not Found",
   description |->
     "Could not identify the song. Try again with a clearer audio sample."]
\* The title's trailing musical-note character is left out (ASCII module).
SongFoundToast(data) ==
  [title |-> "Song Found!",
   description |-> data.title \o " by " \o data.artist]
ErrorToast ==
  [title |-> "Error", description |-> "Something went wrong. Please try again."]
MicrophoneErrorToast(error) ==
  [title |-> "Microphone Error", description |-> error]

\* What the page presents for an outcome of invoke: the toast, and the song
\* it puts on display, if any.
Present(out) ==
  IF out.k = "threw" THEN [toast |-> ErrorToast, shows |-> FALSE]
  ELSE IF out.k = "error" THEN [toast |-> SongNotFoundToast, shows |-> FALSE]
  ELSE [toast |-> SongFoundToast(out.data), shows |-> TRUE,
        result |-> out.data]

\* A click while not listening: handleListenClick's else branch up to the
\* await inside startRecording.  The button is never disabled.
ClickStart ==
  /\ ~isListening
  /\ StartRecording
  /\ UNCHANGED uiVars

\* The microphone request of call s settles and the click handler that
\* awaited startRecording resumes: setIsListening(true), setSearchResult(null).
\* The effect on the hook's error raises the microphone toast.
StartSettled(s) ==
  /\ \/ /\ GetUserMediaResolve(s)
        /\ toast' = toast
     \/ /\ GetUserMediaReject(s)
        /\ toast' = MicrophoneErrorToast(hookError')
  /\ isListening' = TRUE
  /\ searchResult' = NoSong
  /\ UNCHANGED <<isSearching, invokes>>

\* A click while listening: stopRecording, setIsListening(false) and, with a
\* recording, setIsSearching(true) and the upload.  stopRecording resolves
\* within its own call, so nothing runs between it and the upload.
ClickStop ==
  /\ isListening
  /\ StopRecording
  /\ isListening' = FALSE
  /\ LET audioBlob == lastStop'.result
     IN IF audioBlob # Null
          THEN /\ isSearching' = TRUE
               /\ invokes' = invokes \cup {[stop |-> lastStop'.count,
                                             type |-> audioBlob.type]}
          ELSE UNCHANGED <<isSearching, invokes>>
  /\ UNCHANGED <<searchResult, toast>>

\* A click handler whose catch block leaves the searching state as it is.
InvokeSettledStuck(r, out) ==
  /\ r \in invokes
  /\ invokes' = invokes \ {r}
  /\ LET p == Present(out)
     IN /\ toast' = p.toast
        /\ searchResult' = IF p.shows THEN p.result ELSE searchResult
  /\ isSearching' = IF out.k = "threw" THEN isSearching ELSE FALSE
  /\ UNCHANGED <<isListening, hookVars>>

\* The upload of request r is answered and its click handler resumes.
InvokeSettled(r, out) ==
  /\ r \in invokes
  /\ invokes' = invokes \ {r}
  /\ LET p == Present(out)
     IN /\ toast' = p.toast
        /\ searchResult' = IF p.shows THEN p.result ELSE searchResult
  /\ isSearching' = FALSE
  /\ UNCHANGED <<isListening, hookVars>>

---------------------------------------------------------------------------
(* The recorder-based capture variants of the hook (MediaRecorder).        *)

\* dataavailable events per recording.
MaxChunks == 2

\* const mimeTypes = [ ... ]: the preference list of each variant.
mimeTypes(variant) ==
  IF variant = "part_006"
    THEN <<"audio/webm;codecs=opus", "audio/webm", "audio/mp4",
           "audio/ogg;codecs=opus">>
  ELSE <<"audio/mp4", "audio/webm;codecs=opus", "audio/webm",
         "audio/ogg;codecs=opus">>

RecVariants == {"part_006", "part_007"}
\* What a platform may answer isTypeSupported with: any part of the list.
SupportedVals == SUBSET {mimeTypes("part_006")[i] : i \in 1 .. 4}

RECURSIVE selectedMimeTypeLast(_, _, _)
\* A loop without the break: the last supported type wins.
selectedMimeTypeLast(types, i, supported) ==
  IF i > Len(types) THEN ""
  ELSE LET later == selectedMimeTypeLast(types, i + 1, supported)
       IN IF later # "" THEN later
          ELSE IF types[i] \in supported THEN types[i] ELSE ""

RECURSIVE selectedMimeType(_, _, _)
\* let selectedMimeType = ''; for (const type of mimeTypes) { if
\* (MediaRecorder.isTypeSupported(type)) { selectedMimeType = type; break } }
selectedMimeType(types, i, supported) ==
  IF i > Len(types) THEN ""
  ELSE IF types[i] \in supported THEN types[i]
  ELSE selectedMimeType(types, i + 1, supported)

\* options: audioBitsPerSecond, and mimeType when one was selected.
RecorderOptions(selected) ==
  IF selected # ""
    THEN [audioBitsPerSecond |-> 128000, mimeType |-> selected]
  ELSE [audioBitsPerSecond |-> 128000]

\* MediaRecorder.mimeType once recording: the type asked for (the platform
\* may add the codec to a bare container), or without a type asked for the
\* platform's default, which it may or may not report.
ReportedMimeTypes(options) ==
  IF "mimeType" \in DOMAIN options
    THEN {options.mimeType}
           \cup (IF options.mimeType = "audio/webm"
                   THEN {"audio/webm;codecs=opus"} ELSE {})
  ELSE {"", "audio/aac"}

NoRecorder == [t |-> "null"]
NoBlob == [kind |-> "none"]

InitRecIdle ==
  /\ recVariant = "part_006"
  /\ recSupported = {}
  /\ recPc = "idle"
  /\ mediaRecorderRef = NoRecorder
  /\ audioChunksRef = <<>>
  /\ recEvents = 0
  /\ recMimeType = ""
  /\ recBlob = NoBlob

InitRec ==
  /\ recVariant \in RecVariants
  /\ recSupported \in SupportedVals
  /\ recPc = "idle"
  /\ mediaRecorderRef = NoRecorder
  /\ audioChunksRef = <<>>
  /\ recEvents = 0
  /\ recMimeType = ""
  /\ recBlob = NoBlob

\* startRecording of the variant, with the microphone granted: the type is
\* negotiated, the recorder constructed and started.
RecStart ==
  /\ recPc = "idle"
  /\ audioChunksRef' = <<>>
  /\ LET selected == selectedMimeType(mimeTypes(recVariant), 1, recSupported)
         options == RecorderOptions(selected)
     IN \E reported \in ReportedMimeTypes(options) :
          mediaRecorderRef' = [t |-> "recorder", options |-> options,
                               mimeType |-> reported]
  /\ recPc' = "recording"
  /\ UNCHANGED <<recVariant, recSupported, recEvents, recMimeType, recBlob>>

\* ondataavailable: a chunk is kept when it is not empty.
RecDataAvailable(size) ==
  /\ recPc \in {"recording", "stopping"}
  /\ recEvents < MaxChunks
  /\ recEvents' = recEvents + 1
  /\ audioChunksRef' = IF size > 0 THEN Append(audioChunksRef, size)
                        ELSE audioChunksRef
  /\ UNCHANGED <<recVariant, recSupported, recPc, mediaRecorderRef,
                 recMimeType, recBlob>>

\* stopRecording while recording: the type is read, onstop is installed and
\* the recorder is asked to stop.
RecStop ==
  /\ recPc = "recording"
  /\ recMimeType' = IF mediaRecorderRef.mimeType # ""
                      THEN mediaRecorderRef.mimeType ELSE "audio/webm"
  /\ recPc' = "stopping"
  /\ UNCHANGED <<recVariant, recSupported, mediaRecorderRef, audioChunksRef,
                 recEvents, recBlob>>

\* stopRecording with no recorder: resolve(null).
RecStopIdle ==
  /\ recPc = "idle"
  /\ recBlob' = Null
  /\ recPc' = "resolved"
  /\ UNCHANGED <<recVariant, recSupported, mediaRecorderRef, audioChunksRef,
                 recEvents, recMimeType>>

\* onstop: new Blob(audioChunksRef.current, { type: mimeType }) is resolved.
\* The types are lower-case ASCII, which the Blob constructor keeps as given.
RecOnStop ==
  /\ recPc = "stopping"
  /\ recBlob' = [kind |-> "blob", type |-> recMimeType,
                 parts |-> audioChunksRef]
  /\ recPc' = "resolved"
  /\ UNCHANGED <<recVariant, recSupported, mediaRecorderRef, audioChunksRef,
                 recEvents, recMimeType>>

---------------------------------------------------------------------------
(* Specifications.                                                         *)

Init == InitEncIdle /\ InitHook /\ InitIdIdle /\ InitUi /\ InitRecIdle

Next ==
  \/ OpsSoFar < MaxOps /\ StartRecording /\ UNCHANGED <<encVars, idVars, uiVars, recVars>>
  \/ \E s \in Sessions : GetUserMediaResolve(s) /\ UNCHANGED <<encVars, idVars, uiVars, recVars>>
  \/ \E s \in Sessions : GetUserMediaReject(s) /\ UNCHANGED <<encVars, idVars, uiVars, recVars>>
  \/ \E p \in Sessions : OnAudioProcess(p) /\ UNCHANGED <<encVars, idVars, uiVars, recVars>>
  \/ \E f \in frames : Frame(f) /\ UNCHANGED <<encVars, idVars, uiVars, recVars>>
  \/ OpsSoFar < MaxOps /\ StopRecording /\ UNCHANGED <<encVars, idVars, uiVars, recVars>>
  \/ \E s \in Sessions : ContextClosed(s) /\ UNCHANGED <<encVars, idVars, uiVars, recVars>>

Spec == Init /\ [][Next]_vars

\* requestAnimationFrame ids that can be pending.
FrameIds == 1 .. (MaxStarts + 1)

\* The browser runs every requested animation frame that is not cancelled.
SpecLive ==
  Spec /\ WF_vars(\E f \in FrameIds :
                    Frame(f) /\ UNCHANGED <<encVars, idVars, uiVars, recVars>>)

\* The page: clicks on the listen button, the browser's callbacks, and the
\* answers to the uploads.
NextUi ==
  \/ OpsSoFar < MaxClicks /\ ClickStart /\ UNCHANGED <<encVars, idVars, recVars>>
  \/ OpsSoFar < MaxClicks /\ ClickStop /\ UNCHANGED <<encVars, idVars, recVars>>
  \/ \E s \in Sessions : StartSettled(s) /\ UNCHANGED <<encVars, idVars, recVars>>
  \/ \E p \in Sessions : OnAudioProcess(p) /\ UNCHANGED <<encVars, idVars, uiVars, recVars>>
  \/ \E f \in frames : Frame(f) /\ UNCHANGED <<encVars, idVars, uiVars, recVars>>
  \/ \E s \in Sessions : ContextClosed(s) /\ UNCHANGED <<encVars, idVars, uiVars, recVars>>
  \/ \E r \in invokes : \E out \in UploadOutcomes[r.type] :
       InvokeSettled(r, out) /\ UNCHANGED <<encVars, idVars, recVars>>

SpecUi == Init /\ [][NextUi]_vars

\* The requests that can be awaiting their answer.
InvokeIds == {[stop |-> n, type |-> t] : n \in 1 .. MaxClicks, t \in BlobTypes}

\* The page within the hook's bound on start and stop calls.
NextUiLive ==
  \/ OpsSoFar < MaxOps /\ ClickStart /\ UNCHANGED <<encVars, idVars, recVars>>
  \/ OpsSoFar < MaxOps /\ ClickStop /\ UNCHANGED <<encVars, idVars, recVars>>
  \/ \E s \in Sessions : StartSettled(s) /\ UNCHANGED <<encVars, idVars, recVars>>
  \/ \E p \in Sessions : OnAudioProcess(p) /\ UNCHANGED <<encVars, idVars, uiVars, recVars>>
  \/ \E f \in frames : Frame(f) /\ UNCHANGED <<encVars, idVars, uiVars, recVars>>
  \/ \E s \in Sessions : ContextClosed(s) /\ UNCHANGED <<encVars, idVars, uiVars, recVars>>
  \/ \E r \in invokes : \E out \in UploadOutcomes[r.type] :
       InvokeSettled(r, out) /\ UNCHANGED <<encVars, idVars, recVars>>

\* Every upload is answered in the end: the awaited invoke settles.
SpecUiLive ==
  /\ Init
  /\ [][NextUiLive]_vars
  /\ WF_vars(\E r \in InvokeIds : \E out \in UploadOutcomes[r.type] :
               InvokeSettled(r, out) /\ UNCHANGED <<encVars, idVars, recVars>>)

InitR == InitEncIdle /\ InitHook /\ InitIdIdle /\ InitUi /\ InitRec

NextRec ==
  \/ RecStart /\ UNCHANGED <<encVars, hookVars, idVars, uiVars>>
  \/ \E size \in {0, 1} :
       RecDataAvailable(size) /\ UNCHANGED <<encVars, hookVars, idVars, uiVars>>
  \/ RecStop /\ UNCHANGED <<encVars, hookVars, idVars, uiVars>>
  \/ RecStopIdle /\ UNCHANGED <<encVars, hookVars, idVars, uiVars>>
  \/ RecOnStop /\ UNCHANGED <<encVars, hookVars, idVars, uiVars>>

SpecRec == InitR /\ [][NextRec]_vars

InitE == InitEnc /\ InitHook /\ InitIdIdle /\ InitUi /\ InitRecIdle

NextEnc == EncodeCall \/ AmbientChange

SpecEnc == InitE /\ [][NextEnc]_vars

InitI == InitEncIdle /\ InitHook /\ InitId /\ InitUi /\ InitRecIdle

NextId ==
  \/ \E req \in Requests : Invoke(req) /\ UNCHANGED <<encVars, hookVars, uiVars, recVars>>
  \/ \E up \in Upstreams : UpstreamSettle(up) /\ UNCHANGED <<encVars, hookVars, uiVars, recVars>>
  \/ Tick /\ UNCHANGED <<encVars, hookVars, uiVars, recVars>>
  \/ Reconfigure /\ UNCHANGED <<encVars, hookVars, uiVars, recVars>>

SpecId == InitI /\ [][NextId]_vars

\* The awaited fetch settles (with a response or a rejection) and the event
\* loop resumes the handler.
SpecIdLive ==
  SpecId /\ WF_vars(\E up \in Upstreams :
                      UpstreamSettle(up) /\ UNCHANGED <<encVars, hookVars, uiVars, recVars>>)

---------------------------------------------------------------------------
(* Properties of encodeWAV (checked under SpecEnc).                         *)

\* C1: for every sample sequence of length N and every sample rate R the
\* encoder returns exactly 44 + 2N bytes, and the header read back from
\* those bytes carries PCM format code 1, channel count 1, sample rate R,
\* byte rate 2R, block align 2, 16 bits per sample, data-chunk size 2N and
\* RIFF chunk size 36 + 2N.
C1_WavLayout ==
  encCalls > 0 =>
    LET n == Len(encSamples)
        b == encOut.bytes
    IN /\ Len(b) = 44 + 2 * n
       /\ ReadU32(b, 4) = 36 + 2 * n
       /\ ReadU16(b, 20) = 1
       /\ ReadU16(b, 22) = 1
       /\ ReadU32(b, 24) = encRate
       /\ ReadU32(b, 28) = 2 * encRate
       /\ ReadU16(b, 32) = 2
       /\ ReadU16(b, 34) = 16
       /\ ReadU32(b, 40) = 2 * n

C1_Witness ==
  /\ encCalls > 0
  /\ Len(encSamples) = MaxLen
  /\ encRate = 48000
  /\ Len(encOut.bytes) = 44 + 2 * MaxLen

\* The 16-bit value stored for sample i of the encoded input.
Encoded(i) == ReadI16(encOut.bytes, 44 + 2 * (i - 1))

\* C2: every encoded sample lies in [-32768, 32767]; a sample >= 1.0 is
\* stored as 32767 and a sample <= -1.0 as -32768; between them a positive
\* sample v is stored as the integer part of v * 32767 and a negative one as
\* the integer part of v * 32768.
C2_Clamping ==
  encCalls > 0 =>
    \A i \in 1 .. Len(encSamples) :
      LET v == encSamples[i]
          d == Encoded(i)
      IN /\ d \in -32768 .. 32767
         /\ (~IsNaN(v) /\ v >= SampleDen) => d = 32767
         /\ (~IsNaN(v) /\ v <= -SampleDen) => d = -32768
         /\ (~IsNaN(v) /\ v >= 0 /\ v < SampleDen) =>
              (d * SampleDen <= v * 32767 /\ v * 32767 < (d + 1) * SampleDen)
         /\ (~IsNaN(v) /\ v < 0 /\ v > -SampleDen) =>
              ((d - 1) * SampleDen < v * 32768 /\ v * 32768 <= d * SampleDen)

C2_Witness ==
  /\ encCalls > 0
  /\ \E i \in 1 .. Len(encSamples) :
       encSamples[i] = MaxAbs /\ MaxAbs > SampleDen /\ Encoded(i) = 32767
  /\ \E i \in 1 .. Len(encSamples) :
       encSamples[i] = -MaxAbs /\ Encoded(i) = -32768

---------------------------------------------------------------------------
(* Properties of the hook (checked under Spec).                            *)

\* C4: when stopRecording is called on a recording session whose buffer
\* holds no sample block, it resolves with null, and on its return the
\* session's microphone track, processor node and audio context have each
\* been released exactly once.
C4_ZeroBlockStop ==
  (lastStop.count > 0 /\ lastStop.wasRecording /\ lastStop.nBlocks = 0) =>
    /\ lastStop.result = Null
    /\ lastStop.stream # 0 /\ trackStops[lastStop.stream] = 1
    /\ lastStop.proc # 0 /\ procDisconnects[lastStop.proc] = 1
    /\ lastStop.ctx # 0 /\ ctxCloses[lastStop.ctx] = 1

C4_Witness ==
  /\ lastStop.count > 0
  /\ lastStop.wasRecording
  /\ lastStop.nBlocks = 0
  /\ lastStop.result = Null
  /\ trackStops[lastStop.stream] = 1

---------------------------------------------------------------------------
(* Properties of the identify-song handler (checked under SpecId).         *)

\* The handler is past its synchronous validation of a POST request.
Handling == idPc # "idle" /\ idReq.method = "POST"
\* The request carries an audio file in a form body.
HasFile == idReq.body = "form" /\ idReq.audio.t = "file"
AllCredentials == Truthy(env.key) /\ Truthy(env.secret) /\ Truthy(env.host)
TooShortResponse ==
  ErrorResponse(400,
    "Recording too short. Please record at least 5-10 seconds of clear audio.")

\* C5: an audio file below 50000 bytes is answered with the 400 rejection
\* and no upstream fetch is issued; a file of exactly 50000 bytes is not
\* rejected for its size (it goes on to the credential check and, with the
\* credentials present, to the fetch).
C5_SizeFloor ==
  (Handling /\ HasFile) =>
    /\ idReq.audio.size < SizeFloor =>
         (idPc = "done" /\ idResp = TooShortResponse /\ idFetches = 0)
    /\ idReq.audio.size = SizeFloor =>
         /\ idResp # TooShortResponse
         /\ idResp.status # 400
         /\ AllCredentials => idFetches = 1

C5_Witness ==
  /\ Handling /\ HasFile
  /\ idReq.audio.size = SizeFloor - 1
  /\ AllCredentials
  /\ idResp.status = 400
  /\ idFetches = 0

\* The request carries no audio: its body is no form, or the form has no
\* audio field (or an empty one).
NoAudio == idReq.body # "form" \/ AudioFalsy(idReq.audio)

\* C6 (as claimed): every request that carries no audio is answered 400
\* 'No audio file provided' and no upstream call is made.
C6_NoAudioRejected ==
  (Handling /\ NoAudio) =>
    /\ idResp = ErrorResponse(400, "No audio file provided")
    /\ idFetches = 0

CredentialsMissingResponse ==
  ErrorResponse(500, "ACRCloud credentials not configured")

\* C7 (as claimed): whenever one of the three credentials is absent the
\* answer is 500 'ACRCloud credentials not configured', nothing is signed
\* and nothing is fetched.
C7_Original ==
  (Handling /\ ~AllCredentials) =>
    /\ idResp = CredentialsMissingResponse
    /\ idSigned = 0
    /\ idFetches = 0

\* The audio passed validation: a file of at least the floor.
AudioValid == HasFile /\ idReq.audio.size >= SizeFloor

\* C7 (amended): whenever one of the three credentials is absent nothing is
\* signed and nothing is fetched, and a request whose audio passed
\* validation is answered 500 'ACRCloud credentials not configured'; a
\* fetch is issued only with all three credentials present.
C7_CredentialsMissing ==
  /\ (Handling /\ ~AllCredentials) =>
       /\ idSigned = 0
       /\ idFetches = 0
       /\ idPc = "done"
       /\ AudioValid => idResp = CredentialsMissingResponse
  /\ (idFetches > 0 \/ idSigned > 0) => AllCredentials

C7_Witness ==
  /\ Handling /\ AudioValid
  /\ Truthy(env.key) /\ Truthy(env.secret) /\ ~Truthy(env.host)
  /\ idResp = CredentialsMissingResponse
  /\ idSigned = 0

\* C8: the string signed is 'POST', '/v1/identify', the access key, 'audio',
\* '1' and the timestamp, joined by single newlines in that order with no
\* leading or trailing separator; the signature is the base64 encoding of
\* the HMAC-SHA1 of that string keyed by the access secret.
C8_StringToSign ==
  idSig.made =>
    LET expected == "POST\n/v1/identify\n" \o env.key.v \o "\naudio\n1\n"
                      \o idSig.timestamp
    IN /\ idSig.stringToSign = expected
       /\ idSig.signature =
            base64Encode(HmacSha1(TextEncode(env.secret.v),
                                  TextEncode(expected)))
       /\ idOut.signature = idSig.signature

C8_Witness ==
  /\ idSig.made
  /\ env.key.v = "ak\n1"
  /\ idSig.timestamp = "10"
  /\ idSig.stringToSign = "POST\n/v1/identify\nak\n1\naudio\n1\n10"

SameInputs(a, b) ==
  a.key = b.key /\ a.timestamp = b.timestamp /\ a.secret = b.secret

\* C9 (as claimed): two signed tuples that differ in any one component
\* (access key, timestamp or secret) have different strings-to-sign.
C9_Original ==
  (idSig.made /\ idSigPrev.made /\ ~SameInputs(idSig, idSigPrev)) =>
    idSig.stringToSign # idSigPrev.stringToSign

\* C9 (amended): for the same access key, timestamp and secret the
\* signature is the same; tuples that differ in the access key or the
\* timestamp have different strings-to-sign; tuples that differ only in the
\* secret have the same string-to-sign; and whenever the tuples differ the
\* signatures differ (HMAC-SHA1 and base64 taken as injective).
C9_SignatureSensitivity ==
  (idSig.made /\ idSigPrev.made) =>
    /\ SameInputs(idSig, idSigPrev) =>
         idSig.signature = idSigPrev.signature
    /\ (idSig.key # idSigPrev.key \/ idSig.timestamp # idSigPrev.timestamp)
         => idSig.stringToSign # idSigPrev.stringToSign
    /\ (idSig.key = idSigPrev.key /\ idSig.timestamp = idSigPrev.timestamp)
         => idSig.stringToSign = idSigPrev.stringToSign
    /\ ~SameInputs(idSig, idSigPrev) =>
         idSig.signature # idSigPrev.signature

C9_Witness ==
  /\ idSig.made /\ idSigPrev.made
  /\ idSig.key = idSigPrev.key
  /\ idSig.secret = idSigPrev.secret
  /\ idSig.timestamp # idSigPrev.timestamp
  /\ idSig.signature # idSigPrev.signature

\* C10: in a SongResult, externalUrl is the direct track link built from the
\* Spotify track id when the first candidate has one (an ISRC or not),
\* else the search-by-ISRC link when it has an ISRC, else absent.
C10_ExternalUrl ==
  idResp.kind = "song" =>
    LET m == idUp.music
        url == idResp.song.externalUrl
    IN /\ Truthy(m.spotifyId) =>
            url = Str("https://open.spotify.com/track/" \o m.spotifyId.v)
       /\ (~Truthy(m.spotifyId) /\ Truthy(m.isrc)) =>
            url = Str("https://www.spotify.com/search/" \o m.isrc.v)
       /\ (~Truthy(m.spotifyId) /\ ~Truthy(m.isrc)) => url = Undef

C10_Witness ==
  /\ idResp.kind = "song"
  /\ Truthy(idUp.music.spotifyId) /\ Truthy(idUp.music.isrc)
  /\ idResp.song.externalUrl =
       Str("https://open.spotify.com/track/4u7EnebtmKWzUH433cf5Qv")

\* The upstream call settled with a JSON body that has a status object.
Answered == idPc = "done" /\ idUp.k = "json"

\* C11 (as claimed): an upstream status code other than 0 is answered 404
\* and never with a SongResult; 2004 gives the 'no music detected' text, 1001
\* the 'not recognized' text, and every other code the upstream status
\* message itself.
C11_Original ==
  (Answered /\ idUp.code # 0) =>
    /\ idResp.kind = "error"
    /\ idResp.status = 404
    /\ idUp.code = 2004 => idResp.error = NoMusicDetected
    /\ idUp.code = 1001 => idResp.error = NotRecognized
    /\ idUp.code \notin {2004, 1001} =>
         (idUp.msg.t = "string" /\ idResp.error = idUp.msg.v)

\* C11 (amended): an upstream status code other than 0 is answered 404 and
\* never with a SongResult; 2004 gives the 'no music detected' text, 1001
\* the 'not recognized' text, and every other code the upstream status
\* message when the upstream sent a non-empty one, else 'Song not found'.
C11_StatusMapping ==
  (Answered /\ idUp.code # 0) =>
    /\ idResp.kind = "error"
    /\ idResp.status = 404
    /\ idUp.code = 2004 => idResp.error = NoMusicDetected
    /\ idUp.code = 1001 => idResp.error = NotRecognized
    /\ idUp.code \notin {2004, 1001} =>
         idResp.error = (IF Truthy(idUp.msg) THEN idUp.msg.v
                         ELSE "Song not found")

C11_Witness ==
  /\ Answered
  /\ idUp.code = 3003
  /\ idUp.msg = Str("Limit exceeded")
  /\ idResp = ErrorResponse(404, "Limit exceeded")

\* C12: with status code 0 and metadata.music absent or empty the answer is
\* 404 'Song not found', and a SongResult is only ever built from a first
\* match.
C12_EmptyMusicNotFound ==
  /\ (Answered /\ idUp.code = 0 /\ idUp.music.t \in {"absent", "empty"}) =>
       idResp = ErrorResponse(404, "Song not found")
  /\ idResp.kind = "song" =>
       (Answered /\ idUp.code = 0 /\ idUp.music.t = "first")

C12_Witness ==
  /\ Answered
  /\ idUp.code = 0
  /\ idUp.music = EmptyMusic
  /\ idResp = ErrorResponse(404, "Song not found")

\* The upstream call failed in transport: fetch rejected, the body was not
\* JSON, or the JSON had no status object.
TransportFailed == idPc = "done" /\ idUp.k \in {"reject", "badjson", "nostatus"}

\* C13: a transport failure is answered 500 with the message of the error
\* that was thrown, and every invocation that has ended has a Response (no
\* exception leaves the handler).
C13_TransportFailure ==
  /\ TransportFailed => idResp = ErrorResponse(500, idUp.err.message)
  /\ idPc = "done" => idResp.kind \in {"preflight", "error", "song"}

C13_Witness ==
  /\ TransportFailed
  /\ idUp.k = "reject"
  /\ idResp = ErrorResponse(500, "dns error: failed to lookup address")

\* The first upstream artist has a non-empty name.
ArtistNamed(music) ==
  /\ music.artists.t = "array"
  /\ Len(music.artists.items) > 0
  /\ Truthy(music.artists.items[1].name)

\* C16: in a SongResult the artist is the name of the first upstream artist
\* when there is one, and 'Unknown Artist' when the list is missing or empty
\* or the first name is missing or empty; it is never the empty string.
C16_ArtistDefault ==
  idResp.kind = "song" =>
    LET m == idUp.music
    IN /\ ArtistNamed(m) => idResp.song.artist = m.artists.items[1].name.v
       /\ ~ArtistNamed(m) => idResp.song.artist = "Unknown Artist"
       /\ idResp.song.artist # ""

C16_Witness ==
  /\ idResp.kind = "song"
  /\ idUp.music.artists = Arr(<<Named(Str(""))>>)
  /\ idResp.song.artist = "Unknown Artist"

\* A SongResult, or an error body with a message and a 400, 404 or 500.
TypedResponse ==
  \/ idResp.kind = "song" /\ idResp.status = 200
  \/ /\ idResp.kind = "error"
     /\ idResp.error # ""
     /\ idResp.status \in {400, 404, 500}

C15_UpstreamForm ==
  idOut.sent =>
    /\ DOMAIN idOut = {"sent", "url", "sample", "access_key", "data_type",
                       "signature_version", "signature", "sample_bytes",
                       "timestamp"}
    /\ idOut.sample.bytes.data = idReq.audio.data
    /\ idOut.sample.bytes.length = idReq.audio.size
    /\ idOut.sample.type =
         (IF idReq.audio.type = "" THEN "audio/webm" ELSE idReq.audio.type)
    /\ idOut.sample.name # ""
    /\ idReq.audio.name # "" => idOut.sample.name = idReq.audio.name
    /\ idOut.access_key = env.key.v
    /\ idOut.data_type = "audio"
    /\ idOut.signature_version = "1"
    /\ idOut.signature = idSig.signature
    /\ idOut.timestamp = idSig.timestamp
    /\ idOut.sample_bytes = toString(idOut.sample.bytes.length)

C15_Witness ==
  /\ idOut.sent
  /\ idReq.audio.type = ""
  /\ idOut.sample.type = "audio/webm"
  /\ idOut.sample.bytes.data = "recordingA"
  /\ idOut.sample_bytes = "50001"

\* What an invocation answers when it is the first the handler ever sees.
FirstOutcome(req, e, up) ==
  LET h == HandlePrefix(req, e, ClockStart)
  IN IF h.form.sent THEN HandleUpstream(up) ELSE h.resp

\* C17: an invocation issues at most one upstream request, to
\* https://{host}/v1/identify, and issues it when the request arrives: no
\* request is sent again after the call has failed or been turned down; and
\* what an invocation answers is what a first invocation answers to the
\* same request, settings and upstream outcome.
C17_NoRetryStateless ==
  /\ [](idFetches <= 1)
  /\ [](idOut.sent =>
          idOut.url = "https://" \o env.host.v \o "/v1/identify")
  /\ [][idFetches' > idFetches => idCalls' = idCalls + 1]_vars
  /\ [][idPc = "fetching" => (idFetches' = idFetches /\ idOut' = idOut)]_vars
  /\ [](idPc = "done" => idResp = FirstOutcome(idReq, env, idUp))

C17_Witness ==
  /\ idCalls = MaxIdCalls
  /\ clock > ClockStart
  /\ idPc = "done"
  /\ idUp.k = "reject"
  /\ idFetches = 1
  /\ idSigPrev.made

---------------------------------------------------------------------------
(* Further properties of the hook (checked under Spec).                    *)

\* C18: when getUserMedia rejects for a startRecording call, the step sets
\* the error field to the failure's message and changes neither isRecording
\* nor the pending frames nor any of the capture references nor the sample
\* buffer; the call stays failed (the microphone is not asked again for
\* it), no microphone request appears without a startRecording call, and
\* as long as no call has acquired the microphone isRecording is false and
\* no frame is pending.
C18_MicrophoneFailure ==
  /\ [][\A s \in Sessions :
         /\ (calls[s] = "pending" /\ calls'[s] = "failed") =>
              /\ hookError' \in {MicErrorMessage(e) : e \in MicErrors}
              /\ isRecording' = isRecording
              /\ frames' = frames
              /\ <<streamRef, audioContextRef, analyserRef, processorRef,
                    animationFrameRef, samplesRef>>' =
                  <<streamRef, audioContextRef, analyserRef, processorRef,
                    animationFrameRef, samplesRef>>
         /\ calls[s] = "failed" => calls'[s] = "failed"
         /\ (calls[s] # "pending" /\ calls'[s] = "pending") =>
              (calls[s] = "none" /\ StartsSoFar' = StartsSoFar + 1)]_vars
  /\ []((\A s \in Sessions : calls[s] # "ok") =>
          (~isRecording /\ frames = {} /\ processorRef = 0
             /\ samplesRef = <<>>))

C18_Witness ==
  /\ calls[1] = "failed"
  /\ calls[2] = "none"
  /\ hookError = "Permission denied"
  /\ ~isRecording
  /\ frames = {}

\* stopRecording was the last of the startRecording and stopRecording calls.
StoppedLast == lastStop.count > 0 /\ StartsSoFar = lastStop.starts

\* C19 (as claimed): from a stopRecording call until the next startRecording
\* call audioLevel is 0.
C19_LevelZeroAfterStop == StoppedLast => audioLevel = 0

\* C20: a stop with at least one captured block resolves with the WAV
\* encoding of exactly the captured blocks, laid end to end, at the context's
\* sample rate, whatever the displayed level and the peak level were: the
\* output is a function of the blocks alone, and a recording of silence is
\* encoded like any other.
C20_LevelIndependent ==
  (lastStop.count > 0 /\ lastStop.nBlocks > 0) =>
    lastStop.result =
      Wav(encodeWAV(Combine(lastStop.blocks, 1), ContextSampleRate))

C20_Witness ==
  /\ lastStop.count > 0
  /\ lastStop.nBlocks = MaxBlocks
  /\ \A i \in 1 .. MaxBlocks : \A j \in 1 .. BlockLen :
       lastStop.blocks[i][j] = 0
  /\ peakLevelRef.sum = 0
  /\ lastStop.result.kind = "wav"
  /\ Len(lastStop.result.bytes) = 44 + 2 * MaxBlocks * BlockLen

\* C21: every stopRecording call resolves, with null or with a WAV blob and
\* nothing else: with null exactly when no sample was captured, and with a
\* WAV blob of 44 + 2N bytes for every capture of N >= 1 samples, a single
\* block included.
C21_StopAlwaysResolves ==
  lastStop.count > 0 =>
    /\ lastStop.result.kind \in {"null", "wav"}
    /\ lastStop.result = Null <=> lastStop.nBlocks = 0
    /\ lastStop.nBlocks > 0 =>
         /\ lastStop.result.kind = "wav"
         /\ Len(lastStop.result.bytes) = 44 + 2 * lastStop.nBlocks * BlockLen

C21_Witness ==
  /\ lastStop.count > 0
  /\ lastStop.nBlocks = 1
  /\ lastStop.result.kind = "wav"
  /\ Len(lastStop.result.bytes) = 44 + 2 * BlockLen

\* C23 (as claimed): when a stopRecording call has resolved, the tracks of
\* the stream it saw are stopped, the processor it saw is disconnected and
\* the audio context it saw is closed.
C23_ReleasedBeforeResolve ==
  lastStop.count > 0 =>
    /\ lastStop.stream # 0 => trackStops[lastStop.stream] > 0
    /\ lastStop.proc # 0 => procDisconnects[lastStop.proc] > 0
    /\ lastStop.ctx # 0 => lastStop.ctx \in ctxClosed

C25_ArrivalOrder ==
  (lastStop.count > 0 /\ lastStop.nBlocks > 0) =>
    LET b == lastStop.result.bytes
    IN /\ Len(b) = 44 + 2 * lastStop.nBlocks * BlockLen
       /\ ReadU32(b, 40) = 2 * lastStop.nBlocks * BlockLen
       /\ \A i \in 1 .. lastStop.nBlocks : \A j \in 1 .. BlockLen :
            ReadI16(b, 44 + 2 * ((i - 1) * BlockLen + (j - 1))) =
              FloatTo16Bit(lastStop.blocks[i][j])

C25_Witness ==
  /\ lastStop.count > 0
  /\ lastStop.nBlocks = 2
  /\ lastStop.blocks[1][1] = 0
  /\ lastStop.blocks[2][1] = SampleDen
  /\ ReadI16(lastStop.result.bytes, 44) = 0
  /\ ReadI16(lastStop.result.bytes, 44 + 2 * BlockLen) = 32767

\* C26 (as claimed): from a stopRecording call until the next startRecording
\* call the sample buffer holds no block.
C26_BufferCleared == StoppedLast => samplesRef = <<>>

\* C27 (as claimed): the blocks a stop encodes were all appended, since the
\* latest startRecording, by the callback of the processor of the session
\* being stopped.
C27_SessionIsolation ==
  [][(lastStop' # lastStop /\ Len(samplesRef) > 0) => ~mixed]_vars

\* C28 (as claimed): at most one animation frame is pending at any time, and
\* from a stopRecording call until the next successful startRecording none
\* is.
C28_FeedLoopStops ==
  /\ Cardinality(frames) <= 1
  /\ (lastStop.count > 0 /\ ~isRecording) => frames = {}

\* C29: while isRecording is true a frame is pending; a frame that runs
\* publishes a level, requests the next frame and stores its id; and when
\* the recording is never stopped the feed callback runs again and again.
C29_FeedKeepsRunning ==
  /\ [](isRecording => frames # {})
  /\ [][(lastStop' = lastStop /\ calls' = calls
           /\ <<frames, audioLevel, animationFrameRef>>' #
                <<frames, audioLevel, animationFrameRef>>) =>
          /\ Cardinality(frames') = Cardinality(frames)
          /\ animationFrameRef' \in frames'
          /\ audioLevel' \in 0 .. MaxLevel]_vars
  /\ (<>[]isRecording) =>
       []<><<\E f \in FrameIds :
               Frame(f) /\ UNCHANGED <<encVars, idVars, uiVars, recVars>>>>_vars

C29_Witness ==
  /\ isRecording
  /\ lastStop.count = 0
  /\ Cardinality(frames) = 1
  /\ animationFrameRef \in frames
  /\ audioLevel = MaxLevel

---------------------------------------------------------------------------
(* Properties of the Index page (checked under SpecUi).                    *)

\* The edge function's answer to a rejection or a not-found of the
\* recognition service.
UpstreamRejected(resp) == resp.kind = "error" /\ resp.status = 404

\* What invoke comes to when the edge function cannot reach the recognition
\* service, has no credentials, or cannot be reached itself.
TransportFailures ==
  {FunctionsInvoke(HandleUpstream(up)) : up \in {u \in UiUpstreams : u.k = "reject"}}
    \cup {FunctionsInvoke(ErrorResponse(500, "ACRCloud credentials not configured")),
          FetchError}

\* C22 (as claimed): what the page shows for an upload the recognition
\* service rejected (404) is not what it shows for a transport or
\* configuration failure.
C22_RejectionDistinguished ==
  [][\A r \in invokes : \A out \in UploadOutcomes[r.type] :
       (UpstreamRejected(out.resp) /\ InvokeSettled(r, out)) =>
         \A f \in TransportFailures : toast' # Present(f).toast]_vars

\* Streams that getUserMedia handed to the hook and whose tracks were never
\* stopped.
OpenStreams == {s \in Sessions : calls[s] = "ok" /\ trackStops[s] = 0}

\* C30 (as claimed): under any sequence of clicks at most one microphone
\* stream acquired by the hook is open.
C30_SingleStream == Cardinality(OpenStreams) <= 1

\* C31 (as claimed): under any sequence of clicks at most one identify
\* request is awaiting its answer.
C31_OneOutstanding == Cardinality(invokes) <= 1

\* Sessions whose stream, processor or context was acquired and has not been
\* asked to stop, disconnect or close.
Unreleased ==
  {s \in Sessions :
     calls[s] = "ok" /\
       (trackStops[s] = 0 \/ procDisconnects[s] = 0 \/ ctxCloses[s] = 0)}

\* C33 (as claimed): once listening is toggled off (a stop has resolved, the
\* page is not listening and no startRecording is pending) nothing acquired
\* by an earlier startRecording is left unreleased.
C33_ReleasedAfterToggleOff ==
  (lastStop.count > 0 /\ ~isListening
     /\ \A s \in Sessions : calls[s] # "pending") => Unreleased = {}

\* C34 (as claimed): isListening is true only while the hook is capturing.
C34_ListeningAgrees == isListening => isRecording

\* C35 (as claimed): while the page is listening to a new recording, the
\* answer to an upload of an earlier recording neither sets searchResult nor
\* raises the 'Song Found' toast.
C35_NoSupersededResult ==
  [][(isListening /\ invokes' # invokes /\ invokes' \subseteq invokes) =>
       /\ searchResult' = searchResult
       /\ toast' = toast \/ toast'.title # "Song Found!"]_vars

---------------------------------------------------------------------------
(* Further properties of the hook (checked under Spec).                    *)

RECURSIVE MaxRms(_, _)
\* The largest RMS among blocks i.. (the RMS of no samples for none).
MaxRms(blocks, i) ==
  IF i > Len(blocks) THEN calculateRMS(<<>>)
  ELSE LET rest == MaxRms(blocks, i + 1)
           rms == calculateRMS(blocks[i])
       IN IF RmsGT(rms, rest) THEN rms ELSE rest

\* C32: peakLevelRef is the largest RMS of the blocks received since the
\* last startRecording call; that call resets it to 0 and until the next
\* one it never decreases.
C32_RunningMax ==
  /\ [](~RmsGT(peakLevelRef, MaxRms(samplesRef, 1))
         /\ ~RmsGT(MaxRms(samplesRef, 1), peakLevelRef))
  /\ [][IF StartsSoFar' > StartsSoFar THEN peakLevelRef'.sum = 0
        ELSE ~RmsGT(peakLevelRef, peakLevelRef')]_vars

C32_Witness ==
  /\ Len(samplesRef) = 2
  /\ calculateRMS(samplesRef[1]).sum > 0
  /\ calculateRMS(samplesRef[2]).sum = 0
  /\ peakLevelRef = calculateRMS(samplesRef[1])

\* C39 (as claimed): a stopRecording call made while nothing is being
\* captured and no startRecording has been called since the last stop (or
\* ever) resolves with null, stops, disconnects and closes nothing, and
\* leaves everything but isRecording and audioLevel as it was.
C39_IdleStopInert ==
  [][(lastStop'.count = lastStop.count + 1 /\ ~isRecording
        /\ (StartsSoFar = 0 \/ StoppedLast)
        /\ \A s \in Sessions : calls[s] # "pending") =>
       /\ lastStop'.result = Null
       /\ <<trackStops, procDisconnects, ctxCloses>>' =
            <<trackStops, procDisconnects, ctxCloses>>
       /\ <<hookError, streamRef, audioContextRef, analyserRef, processorRef,
            samplesRef, peakLevelRef, calls>>' =
            <<hookError, streamRef, audioContextRef, analyserRef, processorRef,
              samplesRef, peakLevelRef, calls>>]_vars

---------------------------------------------------------------------------
(* Further properties of the identify-song handler (checked under SpecId). *)

\* C37: in a request that reaches the upstream call, the access key and the
\* timestamp in the string-to-sign are the values of the access_key and
\* timestamp form fields, and the signature sent is the signature of that
\* string; every such request signs once, with the clock and the secrets as
\* they are when it arrives, whatever an earlier request signed.
C37_SignedEqualsSent ==
  /\ [](idOut.sent =>
         /\ idSig.made /\ idSigned = 1
         /\ idOut.access_key = idSig.key
         /\ idOut.timestamp = idSig.timestamp
         /\ idSig.stringToSign =
              StringToSign(idOut.access_key, idOut.timestamp)
         /\ idOut.signature = Signature(idSig.secret, idSig.stringToSign))
  /\ [][(idCalls' = idCalls + 1 /\ idOut'.sent) =>
          /\ idSig'.timestamp = toString(clock)
          /\ idSig'.key = env.key.v
          /\ idSig'.secret = env.secret.v
          /\ idSigned' = 1]_vars

C37_Witness ==
  /\ idOut.sent /\ idSigPrev.made
  /\ idOut.timestamp = toString(ClockStart + 1)
  /\ idSigPrev.timestamp = toString(ClockStart)
  /\ idOut.signature # idSigPrev.signature
  /\ idOut.access_key = idSigPrev.key

\* The form has no audio field, or an empty one.
FormWithoutAudio == idReq.body = "form" /\ AudioFalsy(idReq.audio)

---------------------------------------------------------------------------
(* Properties of the recorder-based variants (checked under SpecRec).      *)

\* C40: the recorder is constructed with the first type of the variant's
\* preference list that the platform supports, and with no type only when
\* the platform supports none of the list; the blob resolved on stop has the
\* type the recorder reports, or 'audio/webm' when it reports none.
C40_MimeNegotiation ==
  /\ mediaRecorderRef # NoRecorder =>
       LET types == mimeTypes(recVariant)
           options == mediaRecorderRef.options
       IN IF \E i \in 1 .. Len(types) : types[i] \in recSupported
            THEN \E i \in 1 .. Len(types) :
                   /\ "mimeType" \in DOMAIN options
                   /\ options.mimeType = types[i]
                   /\ types[i] \in recSupported
                   /\ \A j \in 1 .. (i - 1) : types[j] \notin recSupported
          ELSE "mimeType" \notin DOMAIN options
  /\ (recPc = "resolved" /\ mediaRecorderRef # NoRecorder) =>
       /\ recBlob.kind = "blob"
       /\ recBlob.type = IF mediaRecorderRef.mimeType = "" THEN "audio/webm"
                         ELSE mediaRecorderRef.mimeType

C40_Witness ==
  /\ recPc = "resolved"
  /\ mediaRecorderRef # NoRecorder
  /\ recVariant = "part_006"
  /\ recSupported = {"audio/mp4", "audio/ogg;codecs=opus"}
  /\ mediaRecorderRef.options.mimeType = "audio/mp4"
  /\ recBlob.type = "audio/mp4"
  /\ Len(recBlob.parts) = 1

---------------------------------------------------------------------------
(* Liveness of the Index page (checked under SpecUiLive).                  *)

\* C36: isSearching is true only while an upload awaits its answer; the
\* answer to an upload, whatever it is (a song, a returned error, an
\* exception), leaves isSearching false; and so, every upload being answered
\* in the end, isSearching never stays true for ever.
C36_SearchingClears ==
  /\ [](isSearching => invokes # {})
  /\ [][(invokes' # invokes /\ invokes' \subseteq invokes) =>
          ~isSearching']_vars
  /\ (isSearching ~> ~isSearching)

C36_Witness ==
  /\ ~isSearching
  /\ invokes = {}
  /\ lastStop.result # Null
  /\ toast = ErrorToast

====
